---- MODULE Spec2Model ----
(***************************************************************************)
(* A model of vscode-fs: the Local (node) and Host (vscode) file-system    *)
(* adapters, the error normalizer and the watcher wrapper.                 *)
(*                                                                         *)
(* The file tree of the operating system is the state the adapters act on. *)
(* It is a finite tree of regular files, directories, symbolic links and   *)
(* sockets; the node:fs primitives the adapters call are operators on it,  *)
(* written from their POSIX / Node.js behaviour, and every adapter method  *)
(* is one action built from the primitives in the order its code calls     *)
(* them.                                                                   *)
(***************************************************************************)
EXTENDS Integers, Sequences, FiniteSets, TLC

VARIABLES
    fs,       \* the file tree: path -> node
    last,     \* the adapter call that ran last: method, arguments, outcome
    watcher,  \* the watcher created by createWatcher (both backends)
    hosts     \* the Host adapters created by createVSCodeFileSystem

vars == <<fs, last, watcher, hosts>>

----------------------------------------------------------------------------
(* Bounds of the model *)

\* longest path, in components, the file tree can hold (PATH_MAX of the model)
MaxDepth == 3
\* file contents are 1..MaxData
MaxData == 2
\* symbolic links followed in one path resolution before ELOOP (MAXSYMLINKS)
MaxLinks == 4

Names == <<"a", "b">>
NameSet == {Names[i] : i \in 1..Len(Names)}

RECURSIVE PathsOfLen(_)
PathsOfLen(n) ==
    IF n = 0 THEN {<<>>}
    ELSE {Append(p, x) : p \in PathsOfLen(n - 1), x \in NameSet}

Paths == UNION {PathsOfLen(n) : n \in 1..MaxDepth}

----------------------------------------------------------------------------
(* FileType and FileSystemProviderErrorCode *)

Unknown == 0
File == 1
Directory == 2
SymbolicLink == 64

FileExists == "EntryExists"
FileNotFound == "EntryNotFound"
FileNotADirectory == "EntryNotADirectory"
FileIsADirectory == "EntryIsADirectory"
FileExceedsStorageQuota == "EntryExceedsStorageQuota"
FileTooLarge == "EntryTooLarge"
FileWriteLocked == "EntryWriteLocked"
NoPermissions == "NoPermissions"
Unavailable == "Unavailable"
UnknownCode == "Unknown"

FileSystemProviderErrorCode ==
    {FileExists, FileNotFound, FileNotADirectory, FileIsADirectory,
     FileExceedsStorageQuota, FileTooLarge, FileWriteLocked, NoPermissions,
     Unavailable, UnknownCode}

\* a | b on the 7-bit values of FileType
RECURSIVE BitOrN(_, _, _)
BitOrN(a, b, n) ==
    IF n = 0 THEN 0
    ELSE (IF a % 2 = 1 \/ b % 2 = 1 THEN 1 ELSE 0)
         + 2 * BitOrN(a \div 2, b \div 2, n - 1)

BitOr(a, b) == BitOrN(a, b, 7)

----------------------------------------------------------------------------
(* The file tree *)

\* locked: a directory without read, write and search permission
Absent == [kind |-> "absent", data |-> 0, target |-> <<>>, locked |-> FALSE]
FileNode(d) == [kind |-> "file", data |-> d, target |-> <<>>, locked |-> FALSE]
DirNode == [kind |-> "dir", data |-> 0, target |-> <<>>, locked |-> FALSE]
LockedDir == [kind |-> "dir", data |-> 0, target |-> <<>>, locked |-> TRUE]
LinkNode(t) == [kind |-> "link", data |-> 0, target |-> t, locked |-> FALSE]
SocketNode == [kind |-> "socket", data |-> 0, target |-> <<>>, locked |-> FALSE]

EmptyTree == [p \in Paths |-> Absent]

NodeAt(f, p) == IF p \in DOMAIN f THEN f[p] ELSE Absent

Parent(p) == SubSeq(p, 1, Len(p) - 1)

IsPrefix(p, q) == Len(p) <= Len(q) /\ SubSeq(q, 1, Len(p)) = p

\* every entry lives in a real directory
WellFormed(f) ==
    \A p \in DOMAIN f :
        (f[p].kind # "absent" /\ Len(p) > 1) => f[Parent(p)].kind = "dir"

\* names of the entries of directory d, in name order
ChildNames(f, d) ==
    SelectSeq(Names, LAMBDA x : NodeAt(f, Append(d, x)).kind # "absent")

\* the tree without the entry at p and everything below it
RemoveTree(f, p) ==
    [q \in DOMAIN f |-> IF IsPrefix(p, q) THEN Absent ELSE f[q]]

----------------------------------------------------------------------------
(* Raw errors of the native primitives *)

NoCode == "<absent>"

\* message texts are sequences of tokens: a piece of text or a path
Tok(s) == [s |-> s, p |-> <<>>]
TokPath(p) == [s |-> "", p |-> p]

\* a NodeJS.ErrnoException: "<code>: ..., <syscall> '<path>'"
ErrnoError(code, syscall, p) ==
    [fse |-> FALSE, code |-> code, name |-> <<"Error">>,
     message |-> <<Tok(code), Tok(syscall), TokPath(p)>>]

Ok(v) == [ok |-> TRUE, value |-> v]
Fail(e) == [ok |-> FALSE, error |-> e]

\* Path resolution. cur is the directory reached so far (a real path), rest
\* the components still to walk; the last component is followed if it is a
\* link only with follow. Yields the real path of the entry named, which may
\* be absent, or an errno.
RECURSIVE Walk(_, _, _, _, _)
Walk(f, cur, rest, follow, fuel) ==
    IF rest = <<>> THEN [errno |-> "", path |-> cur]
    ELSE
        LET next == Append(cur, Head(rest))
            isLast == Len(rest) = 1
            n == NodeAt(f, next)
        IN  IF n.kind = "absent"
            THEN IF isLast THEN [errno |-> "", path |-> next]
                 ELSE [errno |-> "ENOENT", path |-> <<>>]
            ELSE IF n.kind = "link" /\ (~isLast \/ follow)
            THEN IF fuel = 0 THEN [errno |-> "ELOOP", path |-> <<>>]
                 ELSE Walk(f, <<>>, n.target \o Tail(rest), follow, fuel - 1)
            ELSE IF isLast THEN [errno |-> "", path |-> next]
            ELSE IF n.kind # "dir" THEN [errno |-> "ENOTDIR", path |-> <<>>]
            ELSE IF n.locked THEN [errno |-> "EACCES", path |-> <<>>]
            ELSE Walk(f, next, Tail(rest), follow, fuel)

Resolve(f, p, follow) ==
    IF Len(p) > MaxDepth THEN [errno |-> "ENAMETOOLONG", path |-> <<>>]
    ELSE Walk(f, <<>>, p, follow, MaxLinks)

\* node:fs Stats of the entry at real path q
StatsOf(f, q) ==
    [kind |-> NodeAt(f, q).kind,
     ino |-> q,
     size |-> IF NodeAt(f, q).kind = "file" THEN NodeAt(f, q).data
              ELSE IF NodeAt(f, q).kind = "link" THEN Len(NodeAt(f, q).target)
              ELSE 0]

\* fs.promises.lstat(path)
FsLstat(f, p) ==
    LET r == Resolve(f, p, FALSE)
    IN  IF r.errno # "" THEN Fail(ErrnoError(r.errno, "lstat", p))
        ELSE IF NodeAt(f, r.path).kind = "absent"
        THEN Fail(ErrnoError("ENOENT", "lstat", p))
        ELSE Ok(StatsOf(f, r.path))

\* fs.promises.stat(path)
FsStat(f, p) ==
    LET r == Resolve(f, p, TRUE)
    IN  IF r.errno # "" THEN Fail(ErrnoError(r.errno, "stat", p))
        ELSE IF NodeAt(f, r.path).kind = "absent"
        THEN Fail(ErrnoError("ENOENT", "stat", p))
        ELSE Ok(StatsOf(f, r.path))

----------------------------------------------------------------------------
(* error.ts: FileSystemErrorImpl, createFileSystemError, toFileSystemError *)

NoError == [fse |-> FALSE, code |-> NoCode, name |-> <<>>, message |-> <<>>]

\* Error.prototype.toString(): "<name>: <message>"
ErrorToString(e) ==
    [i \in 1..Len(e.name) |-> Tok(e.name[i])] \o <<Tok(": ")>> \o e.message

\* markAsFileSystemProviderError: the name the error gets
markAsFileSystemProviderError(code) ==
    IF code # "" THEN <<code, " (FileSystemError)">> ELSE <<"FileSystemError">>

\* FileSystemErrorImpl.create(error, code) with error a string (its message)
createFileSystemError(message, code) ==
    [fse |-> TRUE, code |-> code,
     name |-> markAsFileSystemProviderError(code),
     message |-> message]

\* a faulty switch without the EACCES case; C8 must tell it from ToCode
ToCodeBroken(code) ==
    CASE code = "ENOENT" -> FileNotFound
      [] code = "EISDIR" -> FileIsADirectory
      [] code = "ENOTDIR" -> FileNotADirectory
      [] code = "EEXIST" -> FileExists
      [] code = "EPERM" -> NoPermissions
      [] OTHER -> UnknownCode

\* the switch of toFileSystemError over error.code
ToCode(code) ==
    CASE code = "ENOENT" -> FileNotFound
      [] code = "EISDIR" -> FileIsADirectory
      [] code = "ENOTDIR" -> FileNotADirectory
      [] code = "EEXIST" -> FileExists
      [] code \in {"EPERM", "EACCES"} -> NoPermissions
      [] code = "ERR_UNC_HOST_NOT_ALLOWED" -> UnknownCode
      [] OTHER -> UnknownCode

UncHint ==
    Tok(". Please update the 'security.allowedUNCHosts' setting if you want to allow this host.")

\* toFileSystemError(error): resultError is the error itself (create() takes its
\* toString()) or, for ERR_UNC_HOST_NOT_ALLOWED, its message with the hint
toFileSystemError(error) ==
    LET resultError ==
            IF error.code = "ERR_UNC_HOST_NOT_ALLOWED"
            THEN Append(error.message, UncHint)
            ELSE ErrorToString(error)
    IN  createFileSystemError(resultError, ToCode(error.code))

\* FileSystemError.isFileSystemError: error instanceof FileSystemErrorImpl
isFileSystemError(error) == error.fse

\* isErrnoException: an object with a code property
isErrnoException(err) == err.code # NoCode

----------------------------------------------------------------------------
(* node.ts: outcomes of the adapter's promises *)

NoValue == [tag |-> "none"]
Void == [tag |-> "void"]
False == [tag |-> "false"]

\* norm counts the calls of toFileSystemError, raw is the error it was given
Resolved(v) ==
    [ok |-> TRUE, value |-> v, error |-> NoError, norm |-> 0, raw |-> NoError]
Rejected(e) ==
    [ok |-> FALSE, value |-> NoValue, error |-> e, norm |-> 0, raw |-> NoError]

\* a faulty wrap that normalizes every caught error; C9 must tell it from wrap
WrapAlways(r) ==
    IF r.ok THEN r
    ELSE [r EXCEPT !.error = toFileSystemError(r.error),
                   !.norm = r.norm + 1, !.raw = r.error]

\* wrap(fn): r is the outcome of fn()
wrap(r) ==
    IF r.ok THEN r
    ELSE IF isFileSystemError(r.error) THEN r
    ELSE [r EXCEPT !.error = toFileSystemError(r.error),
                   !.norm = r.norm + 1, !.raw = r.error]

\* toFileType(stats)
toFileType(stats) ==
    IF stats.kind = "file" THEN File
    ELSE IF stats.kind = "dir" THEN Directory
    ELSE IF stats.kind = "link" THEN SymbolicLink
    ELSE Unknown

\* a faulty resolveFileType that drops the SymbolicLink bit; C3 must tell it
\* from resolveFileType
ResolveNoLinkBit(f, path) ==
    LET lstats == FsLstat(f, path)
    IN  IF ~lstats.ok THEN lstats
        ELSE IF lstats.value.kind # "link"
        THEN Ok([type |-> toFileType(lstats.value), stats |-> lstats.value])
        ELSE LET targetStats == FsStat(f, path)
                 baseType == IF targetStats.ok THEN toFileType(targetStats.value)
                             ELSE Unknown
                 stats == IF targetStats.ok THEN targetStats.value
                          ELSE lstats.value
             IN  Ok([type |-> baseType, stats |-> stats])

\* resolveFileType(path): Ok([type, stats]) or the lstat error
resolveFileType(f, path) ==
    LET lstats == FsLstat(f, path)
    IN  IF ~lstats.ok THEN lstats
        ELSE IF lstats.value.kind # "link"
        THEN Ok([type |-> toFileType(lstats.value), stats |-> lstats.value])
        ELSE LET targetStats == FsStat(f, path)
                 baseType == IF targetStats.ok THEN toFileType(targetStats.value)
                             ELSE Unknown
                 stats == IF targetStats.ok THEN targetStats.value
                          ELSE lstats.value
             IN  Ok([type |-> BitOr(baseType, SymbolicLink), stats |-> stats])

\* the FileStat literal every method builds from {type, stats}
FileStat(type, stats) ==
    [tag |-> "stat",
     type |-> type,
     ctime |-> <<"birthtime", stats.ino>>,
     mtime |-> <<"mtime", stats.ino>>,
     size |-> stats.size]

\* stat: uri => wrap(...)
LocalStat(f, p) ==
    LET r == resolveFileType(f, p)
    IN  wrap(IF r.ok THEN Resolved(FileStat(r.value.type, r.value.stats))
             ELSE Rejected(r.error))

\* a faulty Probe that compares the type with the SymbolicLink bit masked
\* off; C1 must tell it from Probe
ProbeLoose(f, p, want) ==
    LET r == resolveFileType(f, p)
    IN  IF ~r.ok THEN Resolved(False)
        ELSE IF r.value.type % SymbolicLink # want THEN Resolved(False)
        ELSE Resolved(FileStat(r.value.type, r.value.stats))

\* a faulty Probe that lets the failure of resolveFileType reject; C2 must
\* tell it from Probe
ProbeThrows(f, p, want) ==
    LET r == resolveFileType(f, p)
    IN  IF ~r.ok THEN Rejected(r.error)
        ELSE IF r.value.type # want THEN Resolved(False)
        ELSE Resolved(FileStat(r.value.type, r.value.stats))

\* the body shared by isFile, isDirectory and isSymbolicLink: try
\* resolveFileType, false unless the type is exactly the one wanted
Probe(f, p, want) ==
    LET r == resolveFileType(f, p)
    IN  IF ~r.ok THEN Resolved(False)
        ELSE IF r.value.type # want THEN Resolved(False)
        ELSE Resolved(FileStat(r.value.type, r.value.stats))

LocalIsFile(f, p) == Probe(f, p, File)
LocalIsDirectory(f, p) == Probe(f, p, Directory)
LocalIsSymbolicLink(f, p) == Probe(f, p, SymbolicLink)

\* exists
LocalExists(f, p) ==
    LET r == resolveFileType(f, p)
    IN  IF ~r.ok THEN Resolved(False)
        ELSE Resolved(FileStat(r.value.type, r.value.stats))

----------------------------------------------------------------------------
(* node:fs primitives that change the tree, or read more than metadata.    *)
(* Each yields [errno, fs] or an Ok/Fail outcome; "" is no error.          *)

\* fs.promises.access(path, F_OK): resolves like stat
FsAccess(f, p) ==
    LET r == Resolve(f, p, TRUE)
    IN  IF r.errno # "" THEN Fail(ErrnoError(r.errno, "access", p))
        ELSE IF NodeAt(f, r.path).kind = "absent"
        THEN Fail(ErrnoError("ENOENT", "access", p))
        ELSE Ok(Void)

\* mkdir(2) of one directory
Mkdir1(f, p) ==
    LET r == Resolve(f, p, FALSE)
    IN  IF r.errno # "" THEN [errno |-> r.errno, fs |-> f]
        ELSE IF NodeAt(f, r.path).kind # "absent" THEN [errno |-> "EEXIST", fs |-> f]
        ELSE IF r.path \notin DOMAIN f THEN [errno |-> "ENAMETOOLONG", fs |-> f]
        ELSE [errno |-> "", fs |-> [f EXCEPT ![r.path] = DirNode]]

\* fs.promises.mkdir(path, {recursive: true}); nested: the call creates a
\* missing parent of the path asked for
RECURSIVE MkdirP(_, _, _)
MkdirP(f, p, nested) ==
    LET r == Mkdir1(f, p)
        st == FsStat(f, p)
        isDir == st.ok /\ st.value.kind = "dir"
    IN  IF r.errno = "" THEN r
        ELSE IF r.errno \in {"EACCES", "ENOTDIR", "EPERM", "ENOSPC"} THEN r
        ELSE IF r.errno = "ENOENT" /\ Len(p) > 1
        THEN LET up == MkdirP(f, Parent(p), TRUE)
             IN  IF up.errno # "" THEN up
                 ELSE LET again == Mkdir1(up.fs, p)
                      IN  IF again.errno = "ENOENT"
                          THEN [errno |-> "ENOENT", fs |-> up.fs]
                          ELSE MkdirP(up.fs, p, nested)
        ELSE IF r.errno = "EEXIST" /\ nested
        THEN [errno |-> IF isDir THEN "" ELSE "ENOTDIR", fs |-> f]
        ELSE IF st.ok
        THEN [errno |-> IF isDir THEN "" ELSE "EEXIST", fs |-> f]
        ELSE [errno |-> st.error.code, fs |-> f]

\* a fs.Dirent
Dirent(f, d, x) == [name |-> x, kind |-> NodeAt(f, Append(d, x)).kind]

\* fs.promises.readdir(path, {withFileTypes: true})
FsReaddir(f, p) ==
    LET r == Resolve(f, p, TRUE)
        n == NodeAt(f, r.path)
    IN  IF r.errno # "" THEN Fail(ErrnoError(r.errno, "scandir", p))
        ELSE IF n.kind = "absent" THEN Fail(ErrnoError("ENOENT", "scandir", p))
        ELSE IF n.kind # "dir" THEN Fail(ErrnoError("ENOTDIR", "scandir", p))
        ELSE IF n.locked THEN Fail(ErrnoError("EACCES", "scandir", p))
        ELSE LET names == ChildNames(f, r.path)
             IN  Ok([i \in 1..Len(names) |-> Dirent(f, r.path, names[i])])

\* fs.promises.readFile(path)
FsReadFile(f, p) ==
    LET r == Resolve(f, p, TRUE)
        n == NodeAt(f, r.path)
    IN  IF r.errno # "" THEN Fail(ErrnoError(r.errno, "open", p))
        ELSE IF n.kind = "absent" THEN Fail(ErrnoError("ENOENT", "open", p))
        ELSE IF n.kind = "dir" THEN Fail(ErrnoError("EISDIR", "read", p))
        ELSE IF n.kind = "socket" THEN Fail(ErrnoError("ENXIO", "open", p))
        ELSE Ok([tag |-> "bytes", data |-> n.data])

\* open(path, O_WRONLY | O_CREAT) and replace the content: the errno, and the
\* tree with content d in the file the path names
WriteThrough(f, p, d) ==
    LET r == Resolve(f, p, TRUE)
        n == NodeAt(f, r.path)
    IN  IF r.errno # "" THEN [errno |-> r.errno, fs |-> f]
        ELSE IF n.kind = "dir" THEN [errno |-> "EISDIR", fs |-> f]
        ELSE IF n.kind = "socket" THEN [errno |-> "ENXIO", fs |-> f]
        ELSE IF r.path \notin DOMAIN f THEN [errno |-> "ENAMETOOLONG", fs |-> f]
        ELSE [errno |-> "", fs |-> [f EXCEPT ![r.path] = FileNode(d)]]

\* fs.promises.writeFile(path, content)
FsWriteFile(f, p, d) == WriteThrough(f, p, d)

IsEmptyDir(f, q) == ChildNames(f, q) = <<>>

\* some directory of the subtree at q cannot be read
HasLocked(f, q) ==
    \E x \in DOMAIN f :
        IsPrefix(q, x) /\ f[x].kind = "dir" /\ f[x].locked /\ ~IsEmptyDir(f, x)

\* fs.promises.rm(path, {recursive}); lstat first, a directory needs recursive
FsRm(f, p, recursive) ==
    LET r == Resolve(f, p, FALSE)
        n == NodeAt(f, r.path)
    IN  IF r.errno # "" THEN [errno |-> r.errno, fs |-> f]
        ELSE IF n.kind = "absent" THEN [errno |-> "ENOENT", fs |-> f]
        ELSE IF n.kind = "dir" /\ ~recursive THEN [errno |-> "ERR_FS_EISDIR", fs |-> f]
        ELSE IF n.kind = "dir" /\ HasLocked(f, r.path) THEN [errno |-> "EACCES", fs |-> f]
        ELSE [errno |-> "", fs |-> RemoveTree(f, r.path)]

\* trash(path): a path that does not exist is skipped, an entry is moved away
TrashPath(f, p) ==
    LET r == Resolve(f, p, FALSE)
        n == NodeAt(f, r.path)
    IN  IF r.errno = "ENOENT" THEN [errno |-> "", fs |-> f]
        ELSE IF r.errno # "" THEN [errno |-> r.errno, fs |-> f]
        ELSE IF n.kind = "absent" THEN [errno |-> "", fs |-> f]
        ELSE [errno |-> "", fs |-> RemoveTree(f, r.path)]

\* the tree with the subtree at sp moved to dp
MoveTree(f, sp, dp) ==
    [q \in DOMAIN f |->
        IF IsPrefix(dp, q)
        THEN NodeAt(f, sp \o SubSeq(q, Len(dp) + 1, Len(q)))
        ELSE IF IsPrefix(sp, q) THEN Absent
        ELSE f[q]]

\* the subtree at sp fits below dp within MaxDepth
Fits(f, sp, dp) ==
    \A q \in DOMAIN f :
        (IsPrefix(sp, q) /\ f[q].kind # "absent")
            => Len(dp) + Len(q) - Len(sp) <= MaxDepth

\* fs.promises.rename(oldPath, newPath): rename(2)
FsRename(f, s, t) ==
    LET rs == Resolve(f, s, FALSE)
        rt == Resolve(f, t, FALSE)
        sn == NodeAt(f, rs.path)
        tn == NodeAt(f, rt.path)
    IN  IF rs.errno # "" THEN [errno |-> rs.errno, fs |-> f]
        ELSE IF sn.kind = "absent" THEN [errno |-> "ENOENT", fs |-> f]
        ELSE IF rt.errno # "" THEN [errno |-> rt.errno, fs |-> f]
        ELSE IF rs.path = rt.path THEN [errno |-> "", fs |-> f]
        ELSE IF sn.kind = "dir" /\ IsPrefix(rs.path, rt.path)
        THEN [errno |-> "EINVAL", fs |-> f]
        ELSE IF sn.kind = "dir" /\ tn.kind \notin {"absent", "dir"}
        THEN [errno |-> "ENOTDIR", fs |-> f]
        ELSE IF sn.kind # "dir" /\ tn.kind = "dir"
        THEN [errno |-> "EISDIR", fs |-> f]
        ELSE IF tn.kind = "dir" /\ ~IsEmptyDir(f, rt.path)
        THEN [errno |-> "ENOTEMPTY", fs |-> f]
        ELSE IF rt.path \notin DOMAIN f \/ ~Fits(f, rs.path, rt.path)
        THEN [errno |-> "ENAMETOOLONG", fs |-> f]
        ELSE [errno |-> "", fs |-> MoveTree(f, rs.path, rt.path)]

COPYFILE_EXCL == 1

\* fs.promises.copyFile(src, dest, mode)
FsCopyFile(f, s, t, mode) ==
    LET rs == Resolve(f, s, TRUE)
        sn == NodeAt(f, rs.path)
        rx == Resolve(f, t, FALSE)
        rt == Resolve(f, t, TRUE)
    IN  IF rs.errno # "" THEN [errno |-> rs.errno, fs |-> f]
        ELSE IF sn.kind = "absent" THEN [errno |-> "ENOENT", fs |-> f]
        ELSE IF sn.kind = "dir" THEN [errno |-> "EISDIR", fs |-> f]
        ELSE IF sn.kind = "socket" THEN [errno |-> "ENXIO", fs |-> f]
        ELSE IF mode = COPYFILE_EXCL
        THEN IF rx.errno # "" THEN [errno |-> rx.errno, fs |-> f]
             ELSE IF NodeAt(f, rx.path).kind # "absent"
             THEN [errno |-> "EEXIST", fs |-> f]
             ELSE WriteThrough(f, t, sn.data)
        ELSE IF rt.errno = "" /\ rt.path = rs.path THEN [errno |-> "", fs |-> f]
        ELSE WriteThrough(f, t, sn.data)

----------------------------------------------------------------------------
(* node.ts: the helpers and methods of createNodeFileSystem.  A method      *)
(* yields [fs, res, calls]: the tree it leaves, the outcome of its promise  *)
(* and the native primitives it invoked, in order.                          *)

\* the outcome of awaiting a primitive that yields [errno, fs]
Settle(r, syscall, p) ==
    IF r.errno = "" THEN Resolved(Void)
    ELSE Rejected(ErrnoError(r.errno, syscall, p))

\* joinPath(basePath, segment)
joinPath(basePath, segment) == Append(basePath, segment)

\* getEntryType(dirPath, entry)
getEntryType(f, dirPath, entry) ==
    IF entry.kind # "link" THEN toFileType(entry)
    ELSE LET targetStats == FsStat(f, joinPath(dirPath, entry.name))
         IN  IF targetStats.ok
             THEN BitOr(toFileType(targetStats.value), SymbolicLink)
             ELSE SymbolicLink

\* ensureTargetNotExists(path): what the try block throws reaches the catch,
\* which rethrows whatever has a code other than ENOENT
ensureTargetNotExists(f, path) ==
    LET a == FsAccess(f, path)
        thrown == IF a.ok
                  THEN createFileSystemError(
                           <<Tok("File exists: "), TokPath(path)>>, FileExists)
                  ELSE a.error
    IN  IF isErrnoException(thrown) /\ thrown.code # "ENOENT"
        THEN Fail(thrown)
        ELSE Ok(Void)

\* copyRecursive(sourcePath, targetPath, overwrite) yields [fs, res, calls]
\* with res an Ok/Fail outcome; CopyEntries is its for loop over the entries
RECURSIVE copyRecursive(_, _, _, _), CopyEntries(_, _, _, _, _, _)
copyRecursive(f, sourcePath, targetPath, overwrite) ==
    LET stats == FsStat(f, sourcePath)
    IN  IF ~stats.ok THEN [fs |-> f, res |-> stats, calls |-> <<"stat">>]
        ELSE IF stats.value.kind = "file"
        THEN LET c == FsCopyFile(f, sourcePath, targetPath,
                               IF overwrite THEN 0 ELSE COPYFILE_EXCL)
             IN  [fs |-> c.fs,
                  res |-> IF c.errno = "" THEN Ok(Void)
                          ELSE Fail(ErrnoError(c.errno, "copyfile", sourcePath)),
                  calls |-> <<"stat", "copyFile">>]
        ELSE IF stats.value.kind = "dir"
        THEN LET e == IF ~overwrite THEN ensureTargetNotExists(f, targetPath)
                      ELSE Ok(Void)
                 m == MkdirP(f, targetPath, FALSE)
                 entries == FsReaddir(m.fs, sourcePath)
                 pre == IF ~overwrite THEN <<"stat", "access">> ELSE <<"stat">>
             IN  IF ~e.ok THEN [fs |-> f, res |-> e, calls |-> pre]
                 ELSE IF m.errno # ""
                 THEN [fs |-> m.fs,
                       res |-> Fail(ErrnoError(m.errno, "mkdir", targetPath)),
                       calls |-> Append(pre, "mkdir")]
                 ELSE IF ~entries.ok
                 THEN [fs |-> m.fs, res |-> entries,
                       calls |-> pre \o <<"mkdir", "readdir">>]
                 ELSE CopyEntries(m.fs, sourcePath, targetPath, overwrite,
                                  entries.value, pre \o <<"mkdir", "readdir">>)
        ELSE [fs |-> f,
              res |-> Fail(createFileSystemError(
                          <<Tok("Unsupported file type: "), TokPath(sourcePath)>>,
                          UnknownCode)),
              calls |-> <<"stat">>]

\* a faulty loop that copies no entry; C6 must tell it from CopyEntries
CopyNoEntries(f, sourcePath, targetPath, overwrite, entries, calls) ==
    [fs |-> f, res |-> Ok(Void), calls |-> calls]

CopyEntries(f, sourcePath, targetPath, overwrite, entries, calls) ==
    IF entries = <<>> THEN [fs |-> f, res |-> Ok(Void), calls |-> calls]
    ELSE LET r == copyRecursive(f, joinPath(sourcePath, Head(entries).name),
                                joinPath(targetPath, Head(entries).name),
                                overwrite)
         IN  IF ~r.res.ok THEN [r EXCEPT !.calls = calls \o r.calls]
             ELSE CopyEntries(r.fs, sourcePath, targetPath, overwrite,
                              Tail(entries), calls \o r.calls)

\* the outcome of a promise from an Ok/Fail outcome
Promise(r) == IF r.ok THEN Resolved(r.value) ELSE Rejected(r.error)

\* readDirectory
LocalReadDirectory(f, p) ==
    LET entries == FsReaddir(f, p)
    IN  [fs |-> f,
         res |-> wrap(IF ~entries.ok THEN Rejected(entries.error)
                      ELSE Resolved(
                          [tag |-> "entries",
                           list |-> [i \in 1..Len(entries.value) |->
                               <<entries.value[i].name,
                                 getEntryType(f, p, entries.value[i])>>]])),
         calls |-> <<"readdir">>]

\* createDirectory
LocalCreateDirectory(f, p) ==
    LET m == MkdirP(f, p, FALSE)
    IN  [fs |-> m.fs, res |-> wrap(Settle(m, "mkdir", p)), calls |-> <<"mkdir">>]

\* readFile
LocalReadFile(f, p) ==
    [fs |-> f, res |-> wrap(Promise(FsReadFile(f, p))), calls |-> <<"readFile">>]

\* writeFile
LocalWriteFile(f, p, content) ==
    LET w == FsWriteFile(f, p, content)
    IN  [fs |-> w.fs, res |-> wrap(Settle(w, "open", p)), calls |-> <<"writeFile">>]

\* delete; options.recursive and options.useTrash are TRUE, FALSE (also unset)
LocalDelete(f, p, recursive, useTrash) ==
    LET d == IF useTrash THEN TrashPath(f, p) ELSE FsRm(f, p, recursive)
    IN  [fs |-> d.fs,
         res |-> wrap(Settle(d, IF useTrash THEN "trash" ELSE "rm", p)),
         calls |-> IF useTrash THEN <<"trash">> ELSE <<"rm">>]

\* rename; overwrite is "unset", "true" or "false"
LocalRename(f, source, target, overwrite) ==
    LET e == IF overwrite = "false" THEN ensureTargetNotExists(f, target)
             ELSE Ok(Void)
        r == FsRename(f, source, target)
        pre == IF overwrite = "false" THEN <<"access">> ELSE <<>>
    IN  IF ~e.ok
        THEN [fs |-> f, res |-> wrap(Rejected(e.error)), calls |-> pre]
        ELSE [fs |-> r.fs, res |-> wrap(Settle(r, "rename", source)),
              calls |-> Append(pre, "rename")]

\* copy; overwrite = options?.overwrite !== false
LocalCopy(f, source, target, overwrite) ==
    LET c == copyRecursive(f, source, target, overwrite # "false")
    IN  [fs |-> c.fs, res |-> wrap(Promise(c.res)), calls |-> c.calls]

\* what the pattern matcher of the glob engine throws for a pattern it
\* refuses (one longer than it accepts): an Error that carries no code
PatternError ==
    [fse |-> FALSE, code |-> NoCode, name |-> <<"SyntaxError">>,
     message |-> <<Tok("Input length exceeds maximum allowed length")>>]

\* glob: the outcome of the glob engine is the engine's own; the method
\* awaits it outside any wrap
LocalGlob(f, engine) ==
    [fs |-> f,
     res |-> IF engine.ok
             THEN Resolved([tag |-> "uris", list |-> engine.value])
             ELSE Rejected(engine.error),
     calls |-> <<"glob">>]

Encodings == {"utf8", "base64"}

\* createWritableStream: fs.createWriteStream throws ERR_UNKNOWN_ENCODING
\* for an encoding Buffer does not know; the file is opened later, by the
\* stream
LocalCreateWritableStream(f, p, encoding) ==
    [fs |-> f,
     res |-> IF encoding = "unset" \/ encoding \in Encodings
             THEN Resolved([tag |-> "writable", path |-> p])
             ELSE Rejected([fse |-> FALSE, code |-> "ERR_UNKNOWN_ENCODING",
                            name |-> <<"TypeError">>,
                            message |-> <<Tok("Unknown encoding: "), Tok(encoding)>>]),
     calls |-> <<"createWriteStream">>]

\* createReadableStream
LocalCreateReadableStream(f, p) ==
    [fs |-> f, res |-> Resolved([tag |-> "readable", path |-> p]),
     calls |-> <<"createReadStream">>]

----------------------------------------------------------------------------
(* vscode.ts: the probes of createVSCodeFileSystem *)

\* a vscode.FileSystemError of the native provider
NativeError(code, p) ==
    [fse |-> FALSE, code |-> code, name |-> <<code, " (FileSystemError)">>,
     message |-> <<TokPath(p)>>]

\* vscode.workspace.fs.stat(uri): the native provider answers for the same
\* tree, or is unavailable
NativeStat(f, p, available) ==
    LET l == FsLstat(f, p)
        t == FsStat(f, p)
    IN  IF ~available THEN Fail(NativeError("Unavailable", p))
        ELSE IF ~l.ok THEN Fail(NativeError(ToCode(l.error.code), p))
        ELSE IF l.value.kind # "link"
        THEN Ok(FileStat(toFileType(l.value), l.value))
        ELSE IF t.ok
        THEN Ok(FileStat(BitOr(toFileType(t.value), SymbolicLink), t.value))
        ELSE Ok(FileStat(SymbolicLink, l.value))

\* stat(uri).then(stat => stat.type === want ? stat : false, () => false)
HostProbe(f, p, available, want) ==
    LET s == NativeStat(f, p, available)
    IN  [fs |-> f,
         res |-> IF s.ok
                 THEN IF s.value.type = want THEN Resolved(s.value)
                      ELSE Resolved(False)
                 ELSE Resolved(False),
         calls |-> <<"vscode.stat">>]

HostIsDirectory(f, p, available) == HostProbe(f, p, available, Directory)
HostIsFile(f, p, available) == HostProbe(f, p, available, File)
HostIsSymbolicLink(f, p, available) == HostProbe(f, p, available, SymbolicLink)

\* exists: stat(uri).then(stat => stat, () => false)
HostExists(f, p, available) ==
    LET s == NativeStat(f, p, available)
    IN  [fs |-> f,
         res |-> IF s.ok THEN Resolved(s.value) ELSE Resolved(False),
         calls |-> <<"vscode.stat">>]

\* vscode.workspace.fs.delete(uri, options) of the native provider on the
\* same tree; options left out are false. A directory that is not empty
\* needs recursive; with useTrash the entry is moved to the trash
NativeDelete(f, p, recursive, useTrash) ==
    LET r == Resolve(f, p, FALSE)
        n == NodeAt(f, r.path)
    IN  IF r.errno # "" THEN [errno |-> r.errno, fs |-> f]
        ELSE IF n.kind = "absent" THEN [errno |-> "ENOENT", fs |-> f]
        ELSE IF n.kind = "dir" /\ ~recursive /\ ~IsEmptyDir(f, r.path)
        THEN [errno |-> "ENOTEMPTY", fs |-> f]
        ELSE IF n.kind = "dir" /\ HasLocked(f, r.path) THEN [errno |-> "EACCES", fs |-> f]
        ELSE [errno |-> "", fs |-> RemoveTree(f, r.path)]

\* delete: async uri => await vscode.workspace.fs.delete(uri); the method
\* takes no second parameter, so the native delete gets no options; calls
\* lists the native call and the options passed to it
HostDelete(f, p, recursive, useTrash) ==
    LET passed == [recursive |-> FALSE, useTrash |-> FALSE]
        d == NativeDelete(f, p, passed.recursive, passed.useTrash)
    IN  [fs |-> d.fs,
         res |-> IF d.errno = "" THEN Resolved(Void)
                 ELSE Rejected(NativeError(ToCode(d.errno), p)),
         calls |-> <<"delete">>
                   \o (IF passed.recursive THEN <<"recursive">> ELSE <<>>)
                   \o (IF passed.useTrash THEN <<"useTrash">> ELSE <<>>)]

----------------------------------------------------------------------------
(* The trees a call can find, and the arguments of the calls *)

Files == {FileNode(d) : d \in 1..MaxData}

A == <<"a">>
B == <<"b">>
AA == <<"a", "a">>
AB == <<"a", "b">>
ABA == <<"a", "b", "a">>
BA == <<"b", "a">>

Tree(na, nb, naa, nab, naba, nba) ==
    [p \in Paths |->
        IF p = A THEN na ELSE IF p = B THEN nb
        ELSE IF p = AA THEN naa ELSE IF p = AB THEN nab
        ELSE IF p = ABA THEN naba ELSE IF p = BA THEN nba
        ELSE Absent]

TopChoices == {Absent, DirNode, SocketNode, LinkNode(B), LinkNode(AB)} \cup Files
MidChoices == {Absent, DirNode, SocketNode, LinkNode(B)} \cup Files
LeafChoices == {Absent, DirNode} \cup Files

InitTrees ==
    {t \in {Tree(na, nb, naa, nab, naba, nba) :
                na \in TopChoices, nb \in TopChoices \cup {LockedDir},
                naa \in MidChoices, nab \in MidChoices,
                naba \in LeafChoices, nba \in MidChoices} :
        WellFormed(t)}

ProbePaths == {A, B, AA, BA}
PathPairs == {<<A, B>>, <<B, A>>, <<AA, B>>, <<A, BA>>, <<AA, AB>>, <<A, AB>>}
Overwrites == {"unset", "true", "false"}

NoCall ==
    [op |-> "none", backend |-> "none", path |-> <<>>, target |-> <<>>,
     opt |-> "", res |-> Resolved(NoValue), calls |-> <<>>, pre |-> EmptyTree]

\* no watcher yet: the fields of a watcher, blank
NoWatcher ==
    [state |-> "none", backend |-> "none",
     options |-> [ignoreCreateEvents |-> "unset", ignoreChangeEvents |-> "unset",
                  ignoreDeleteEvents |-> "unset"],
     closed |-> FALSE, isDisposed |-> FALSE, wired |-> {},
     listeners |-> [k \in {"create", "change", "delete"} |-> <<>>],
     handles |-> {}, released |-> {}, regs |-> 0, disposeCalled |-> FALSE]

\* the step of a method: out is what it yields on the tree fs
Call(op, backend, path, target, opt, out) ==
    /\ last.op = "none"
    /\ fs' = out.fs
    /\ last' = [op |-> op, backend |-> backend, path |-> path,
                target |-> target, opt |-> opt, res |-> out.res,
                calls |-> out.calls, pre |-> fs]
    /\ UNCHANGED <<watcher, hosts>>

Probed(op, backend, path, opt, res) ==
    Call(op, backend, path, <<>>, opt, [fs |-> fs, res |-> res, calls |-> <<>>])

Init ==
    /\ fs \in InitTrees
    /\ last = NoCall
    /\ watcher = NoWatcher
    /\ hosts = <<>>

Stat == \E p \in ProbePaths :
    Probed("stat", "local", p, "", LocalStat(fs, p))
IsFile == \E p \in ProbePaths :
    Probed("isFile", "local", p, "", LocalIsFile(fs, p))
IsDirectory == \E p \in ProbePaths :
    Probed("isDirectory", "local", p, "", LocalIsDirectory(fs, p))
IsSymbolicLink == \E p \in ProbePaths :
    Probed("isSymbolicLink", "local", p, "", LocalIsSymbolicLink(fs, p))
Exists == \E p \in ProbePaths :
    Probed("exists", "local", p, "", LocalExists(fs, p))
ReadDirectory == \E p \in ProbePaths :
    Call("readDirectory", "local", p, <<>>, "", LocalReadDirectory(fs, p))
CreateDirectory == \E p \in ProbePaths \cup {ABA} :
    Call("createDirectory", "local", p, <<>>, "", LocalCreateDirectory(fs, p))
ReadFile == \E p \in ProbePaths :
    Call("readFile", "local", p, <<>>, "", LocalReadFile(fs, p))
WriteFile == \E p \in ProbePaths, d \in 1..MaxData :
    Call("writeFile", "local", p, <<>>, "", LocalWriteFile(fs, p, d))
Delete == \E p \in ProbePaths, recursive \in BOOLEAN, useTrash \in BOOLEAN :
    Call("delete", "local", p, <<>>,
         IF useTrash THEN "useTrash" ELSE IF recursive THEN "recursive" ELSE "",
         LocalDelete(fs, p, recursive, useTrash))
Rename == \E st \in PathPairs, ow \in Overwrites :
    Call("rename", "local", st[1], st[2], ow, LocalRename(fs, st[1], st[2], ow))
Copy == \E st \in PathPairs, ow \in Overwrites :
    Call("copy", "local", st[1], st[2], ow, LocalCopy(fs, st[1], st[2], ow))
Glob == \E engine \in {Ok(<<A>>), Ok(<<>>), Fail(PatternError)} :
    Call("glob", "local", <<>>, <<>>, "", LocalGlob(fs, engine))
CreateWritableStream == \E p \in {A}, enc \in {"unset", "utf8", "latin9"} :
    Call("createWritableStream", "local", p, <<>>, enc,
         LocalCreateWritableStream(fs, p, enc))
CreateReadableStream == \E p \in {A} :
    Call("createReadableStream", "local", p, <<>>, "",
         LocalCreateReadableStream(fs, p))

HostAvail(available) == IF available THEN "" ELSE "unavailable"

VSCodeIsFile == \E p \in ProbePaths, av \in BOOLEAN :
    Call("isFile", "host", p, <<>>, HostAvail(av), HostIsFile(fs, p, av))
VSCodeIsDirectory == \E p \in ProbePaths, av \in BOOLEAN :
    Call("isDirectory", "host", p, <<>>, HostAvail(av), HostIsDirectory(fs, p, av))
VSCodeIsSymbolicLink == \E p \in ProbePaths, av \in BOOLEAN :
    Call("isSymbolicLink", "host", p, <<>>, HostAvail(av),
         HostIsSymbolicLink(fs, p, av))
VSCodeExists == \E p \in ProbePaths, av \in BOOLEAN :
    Call("exists", "host", p, <<>>, HostAvail(av), HostExists(fs, p, av))
VSCodeDelete == \E p \in ProbePaths, o \in {"", "recursive", "useTrash"} :
    Call("delete", "host", p, <<>>, o,
         HostDelete(fs, p, o = "recursive", o = "useTrash"))

Next ==
    \/ Stat \/ IsFile \/ IsDirectory \/ IsSymbolicLink \/ Exists
    \/ ReadDirectory \/ CreateDirectory \/ ReadFile \/ WriteFile \/ Delete
    \/ Rename \/ Copy \/ Glob \/ CreateWritableStream \/ CreateReadableStream
    \/ VSCodeIsFile \/ VSCodeIsDirectory \/ VSCodeIsSymbolicLink \/ VSCodeExists
    \/ VSCodeDelete

Spec == Init /\ [][Next]_vars

----------------------------------------------------------------------------
(* Claims about the file-system methods, checked under Spec.  last is the   *)
(* call that ran, last.pre the tree it found, fs the tree it left.          *)

IsProbe(op) == op \in {"isFile", "isDirectory", "isSymbolicLink", "exists"}

\* the entry at p is a symbolic link whose target resolves to a node of kind k
LinkTo(f, p, k) ==
    /\ FsLstat(f, p).ok /\ FsLstat(f, p).value.kind = "link"
    /\ FsStat(f, p).ok /\ FsStat(f, p).value.kind = k

\* the entry at p is a symbolic link whose target cannot be resolved
BrokenLink(f, p) ==
    /\ FsLstat(f, p).ok /\ FsLstat(f, p).value.kind = "link"
    /\ ~FsStat(f, p).ok

\* C1: on the Local backend exists(p) resolves to a FileStat exactly when
\* stat(p) succeeds and to false otherwise; isFile(p) resolves to a FileStat
\* exactly when stat(p) succeeds with type File (1, no SymbolicLink bit), so
\* isFile is false for a symbolic link that points at a regular file.
C1_ExistsAndIsFileAgreeWithStat ==
    LET st == LocalStat(last.pre, last.path)
    IN  /\ (last.backend = "local" /\ last.op = "exists") =>
              /\ last.res.ok
              /\ st.ok => last.res.value = st.value
              /\ ~st.ok => last.res.value = False
        /\ (last.backend = "local" /\ last.op = "isFile") =>
              /\ last.res.ok
              /\ (st.ok /\ st.value.type = 1) => last.res.value = st.value
              /\ ~(st.ok /\ st.value.type = 1) => last.res.value = False
              /\ LinkTo(last.pre, last.path, "file") => last.res.value = False

C1_Witness ==
    /\ last.backend = "local" /\ last.op = "isFile"
    /\ LinkTo(last.pre, last.path, "file")
    /\ last.res.value = False

\* C2: on both backends isFile, isDirectory, isSymbolicLink and exists never
\* reject; when the metadata primitive of the probe (lstat on Local, the
\* native stat on Host) fails, with whatever error, the probe resolves to
\* false; and a probe leaves the file tree as it found it.
C2_ProbesNeverReject ==
    IsProbe(last.op) =>
        /\ last.res.ok
        /\ last.res.value.tag \in {"false", "stat"}
        /\ fs = last.pre
        /\ (last.backend = "local" /\ ~FsLstat(last.pre, last.path).ok)
              => last.res.value = False
        /\ (last.backend = "host"
            /\ ~NativeStat(last.pre, last.path, last.opt = "").ok)
              => last.res.value = False

C2_Witness ==
    /\ IsProbe(last.op) /\ last.backend = "local"
    /\ ~FsLstat(last.pre, last.path).ok
    /\ FsLstat(last.pre, last.path).error.code = "EACCES"
    /\ last.res.ok /\ last.res.value = False

\* C3: Local stat(p) of a symbolic link reports 65 (File | SymbolicLink) when
\* the target resolves to a regular file, 66 (Directory | SymbolicLink) when
\* it resolves to a directory, and 64 (SymbolicLink alone) with the ctime,
\* mtime and size of the link itself when the target cannot be resolved, in
\* which case stat still succeeds; of anything else it reports the exact
\* type, without the SymbolicLink bit.
C3_StatOfSymbolicLinks ==
    LET l == FsLstat(last.pre, last.path)
        t == FsStat(last.pre, last.path)
        v == last.res.value
    IN  (last.backend = "local" /\ last.op = "stat" /\ l.ok) =>
            /\ last.res.ok
            /\ LinkTo(last.pre, last.path, "file") => v.type = 65
            /\ LinkTo(last.pre, last.path, "dir") => v.type = 66
            /\ BrokenLink(last.pre, last.path) =>
                  /\ v.type = 64
                  /\ v.ctime = <<"birthtime", l.value.ino>>
                  /\ v.mtime = <<"mtime", l.value.ino>>
                  /\ v.size = l.value.size
            /\ l.value.kind = "file" => v.type = 1
            /\ l.value.kind = "dir" => v.type = 2
            /\ l.value.kind = "socket" => v.type = 0

C3_Witness ==
    /\ last.backend = "local" /\ last.op = "stat"
    /\ BrokenLink(last.pre, last.path)
    /\ last.res.ok /\ last.res.value.type = 64
    /\ last.res.value.size = Len(NodeAt(last.pre, last.path).target)


Has(calls, x) == \E i \in 1..Len(calls) : calls[i] = x

\* C4: Local rename(a, b, {overwrite: false}) with an entry at b before the
\* call rejects with a FileSystemError of code EntryExists, never invokes
\* the rename primitive and leaves the tree (a and b with it) unchanged; with
\* no entry at b it invokes the rename primitive.
C4_RenameNoOverwrite ==
    LET b == FsLstat(last.pre, last.target)
    IN  (last.backend = "local" /\ last.op = "rename" /\ last.opt = "false") =>
            /\ b.ok =>
                  /\ ~last.res.ok
                  /\ isFileSystemError(last.res.error)
                  /\ last.res.error.code = "EntryExists"
                  /\ ~Has(last.calls, "rename")
                  /\ fs = last.pre
            /\ (~b.ok /\ b.error.code = "ENOENT") => Has(last.calls, "rename")

\* C5: Local copy(dirA, dirB, {overwrite: false}) with dirA a directory and
\* an entry at dirB rejects with code EntryExists before any directory is
\* created or file copied, the tree unchanged; copy of a regular file with
\* overwrite false onto an existing target rejects with EntryExists and
\* leaves the tree unchanged.
C5_CopyNoOverwrite ==
    LET s == FsStat(last.pre, last.path)
        t == FsLstat(last.pre, last.target)
    IN  (last.backend = "local" /\ last.op = "copy" /\ last.opt = "false"
         /\ s.ok /\ t.ok) =>
            /\ s.value.kind = "dir" =>
                  /\ ~last.res.ok
                  /\ isFileSystemError(last.res.error)
                  /\ last.res.error.code = "EntryExists"
                  /\ ~Has(last.calls, "mkdir") /\ ~Has(last.calls, "copyFile")
                  /\ fs = last.pre
            /\ s.value.kind = "file" =>
                  /\ ~last.res.ok
                  /\ isFileSystemError(last.res.error)
                  /\ last.res.error.code = "EntryExists"
                  /\ fs = last.pre

\* the paths below p, relative to it, that hold an entry in f
Below(f, p) ==
    {SubSeq(q, Len(p) + 1, Len(q)) :
        q \in {x \in DOMAIN f : IsPrefix(p, x) /\ x # p /\ f[x].kind # "absent"}}

\* the subtree at p holds regular files and directories only
PlainTree(f, p) ==
    /\ NodeAt(f, p).kind = "dir"
    /\ \A r \in Below(f, p) : f[p \o r].kind \in {"file", "dir"}

\* C6: Local copy(dirA, dirB) with overwrite unset or true that succeeds on
\* a tree of regular files and directories leaves under dirB a file with the
\* same content for every regular file under dirA and a directory for every
\* directory under dirA (empty ones too), and leaves dirA unchanged.
C6_CopyMirrors ==
    (last.backend = "local" /\ last.op = "copy"
     /\ last.opt \in {"unset", "true"}
     /\ PlainTree(last.pre, last.path) /\ last.res.ok) =>
        /\ FsStat(fs, last.target).ok
        /\ FsStat(fs, last.target).value.kind = "dir"
        /\ \A r \in Below(last.pre, last.path) :
              LET n == last.pre[last.path \o r]
              IN  /\ n.kind = "file" =>
                        /\ FsReadFile(fs, last.target \o r).ok
                        /\ FsReadFile(fs, last.target \o r).value.data = n.data
                  /\ n.kind = "dir" =>
                        /\ FsStat(fs, last.target \o r).ok
                        /\ FsStat(fs, last.target \o r).value.kind = "dir"
        /\ \A q \in Paths : IsPrefix(last.path, q) => fs[q] = last.pre[q]

C6_Witness ==
    /\ last.backend = "local" /\ last.op = "copy" /\ last.opt = "unset"
    /\ last.res.ok
    /\ PlainTree(last.pre, last.path)
    /\ last.path = A /\ last.target = B
    /\ last.pre[AA].kind = "file" /\ last.pre[AB].kind = "dir"
    /\ last.pre[ABA].kind = "file"
    /\ last.pre[B].kind = "dir" /\ last.pre[BA].kind = "file"
    /\ last.pre[BA].data # last.pre[AA].data
    /\ fs[<<"b", "b", "a">>] = last.pre[ABA]

\* C7: every method of the Local backend that rejects does so with a
\* normalized FileSystemError carrying a code of the taxonomy, never with
\* the raw exception of the primitive that failed.
C7_LocalRejectsNormalized ==
    (last.backend = "local" /\ ~last.res.ok) =>
        /\ isFileSystemError(last.res.error)
        /\ last.res.error.code \in FileSystemProviderErrorCode

\* C9: wrap rethrows an error that already is a FileSystemError as the same
\* value (the EntryExists error of ensureTargetNotExists in rename and copy
\* reaches the caller with its code and message, toFileSystemError never
\* called), and hands every other error to toFileSystemError exactly once.
C9_WrapIdempotent ==
    LET exists == createFileSystemError(
                      <<Tok("File exists: "), TokPath(last.target)>>, "EntryExists")
        wrapped == last.op \in {"stat", "readDirectory", "createDirectory",
                                "readFile", "writeFile", "delete", "rename", "copy"}
    IN  /\ (last.backend = "local" /\ last.op = "rename" /\ last.opt = "false"
            /\ FsAccess(last.pre, last.target).ok) =>
                (~last.res.ok /\ last.res.error = exists /\ last.res.norm = 0)
        /\ (last.backend = "local" /\ last.op = "copy" /\ last.opt = "false"
            /\ FsStat(last.pre, last.path).ok
            /\ FsStat(last.pre, last.path).value.kind = "dir"
            /\ FsAccess(last.pre, last.target).ok) =>
                (~last.res.ok /\ last.res.error = exists /\ last.res.norm = 0)
        /\ (last.backend = "local" /\ wrapped /\ ~last.res.ok) =>
              \/ /\ last.res.norm = 0
                 /\ isFileSystemError(last.res.error)
                 /\ last.res.error.code \in {"EntryExists", "Unknown"}
                 /\ last.res.error.name = <<last.res.error.code, " (FileSystemError)">>
              \/ /\ last.res.norm = 1
                 /\ ~isFileSystemError(last.res.raw)
                 /\ isFileSystemError(last.res.error)
                 /\ last.res.error.message = ErrorToString(last.res.raw)

C9_Witness ==
    /\ last.backend = "local" /\ last.op = "rename" /\ last.opt = "false"
    /\ ~last.res.ok /\ last.res.norm = 0
    /\ last.res.error.code = "EntryExists"
    /\ last.res.error.message = <<Tok("File exists: "), TokPath(last.target)>>

----------------------------------------------------------------------------
(* The error normalizer as a function of the error it is given, checked     *)
(* under SpecError: every raw error is an input.                            *)

RawCodes ==
    {"ENOENT", "EISDIR", "ENOTDIR", "EEXIST", "EPERM", "EACCES",
     "ERR_UNC_HOST_NOT_ALLOWED", NoCode, "ELOOP", "EIO", "ENOTEMPTY",
     "ERR_FS_EISDIR", "EntryExists", "enoent"}

RawMessages ==
    {<<>>, <<Tok("no such file or directory")>>,
     <<Tok("UNC host 'x' access is not allowed")>>,
     <<Tok("File exists: "), TokPath(A)>>}

RawErrors ==
    [fse : BOOLEAN, code : RawCodes, name : {<<"Error">>, <<"TypeError">>},
     message : RawMessages]

InitError ==
    /\ fs = EmptyTree
    /\ last = NoCall
    /\ watcher = NoWatcher
    /\ hosts = <<>>

\* toFileSystemError(error)
ToFileSystemError == \E error \in RawErrors :
    /\ last.op = "none"
    /\ last' = [NoCall EXCEPT
                  !.op = "toFileSystemError",
                  !.res = [Rejected(toFileSystemError(error)) EXCEPT
                              !.norm = 1, !.raw = error]]
    /\ UNCHANGED <<fs, watcher, hosts>>

\* createFileSystemError(error, code) with error a string
CreateFileSystemError == \E m \in RawMessages, code \in FileSystemProviderErrorCode \cup {""} :
    /\ last.op = "none"
    /\ last' = [NoCall EXCEPT
                  !.op = "createFileSystemError",
                  !.opt = code,
                  !.res = Rejected(createFileSystemError(m, code))]
    /\ UNCHANGED <<fs, watcher, hosts>>

NextError == ToFileSystemError \/ CreateFileSystemError

SpecError == InitError /\ [][NextError]_vars

\* C8: toFileSystemError maps every error to one FileSystemError:
\* ENOENT to EntryNotFound, EISDIR to EntryIsADirectory, ENOTDIR to
\* EntryNotADirectory, EEXIST to EntryExists, EPERM and EACCES to
\* NoPermissions, everything else (no code, ERR_UNC_HOST_NOT_ALLOWED, any
\* other code) to Unknown; the result satisfies isFileSystemError and its
\* code is one of FileSystemProviderErrorCode.
C8_NormalizerTotal ==
    LET c == last.res.raw.code
        e == last.res.error
    IN  /\ last.op = "toFileSystemError" =>
              /\ isFileSystemError(e)
              /\ e.code \in FileSystemProviderErrorCode
              /\ c = "ENOENT" => e.code = "EntryNotFound"
              /\ c = "EISDIR" => e.code = "EntryIsADirectory"
              /\ c = "ENOTDIR" => e.code = "EntryNotADirectory"
              /\ c = "EEXIST" => e.code = "EntryExists"
              /\ c = "EPERM" => e.code = "NoPermissions"
              /\ c = "EACCES" => e.code = "NoPermissions"
              /\ c \notin {"ENOENT", "EISDIR", "ENOTDIR", "EEXIST", "EPERM", "EACCES"}
                    => e.code = "Unknown"
        /\ last.op = "createFileSystemError" =>
              /\ isFileSystemError(e)
              /\ e.code = last.opt

C8_Witness ==
    /\ last.op = "toFileSystemError"
    /\ last.res.raw.code = "ERR_UNC_HOST_NOT_ALLOWED"
    /\ last.res.error.code = "Unknown"
    /\ isFileSystemError(last.res.error)

----------------------------------------------------------------------------
(* The watchers of createWatcher, checked under SpecWatcher.                *)
(*                                                                         *)
(* Local: a chokidar FSWatcher (closed, the handlers wired to its add,     *)
(* change and unlink events) inside a NodeFileSystemWatcherImpl (the       *)
(* options, three Sets of listeners).  Host: the native watcher (its       *)
(* ignore flags and listeners) with the isDisposed field and the dispose   *)
(* the adapter puts on it.                                                 *)

\* registrations one watcher takes
MaxRegistrations == 2

\* the functions a caller registers as listeners
Callbacks == {"f", "g"}
Kinds == {"create", "change", "delete"}
\* an optional boolean of the options object: left out, true or false; false
\* and left out are told apart nowhere in the code, so the options a caller
\* passes are every combination of left out and true, and all three false
OptionValues == {"unset", "true", "false"}
WatcherOptions ==
    {o \in [ignoreCreateEvents : OptionValues, ignoreChangeEvents : OptionValues,
             ignoreDeleteEvents : OptionValues] :
        \/ \A x \in DOMAIN o : o[x] # "false"
        \/ \A x \in DOMAIN o : o[x] = "false"}

NoListeners == [k \in Kinds |-> <<>>]

\* the raw event a kind of listener is fed from
RawEvent(kind) ==
    IF kind = "create" THEN "add"
    ELSE IF kind = "change" THEN "change" ELSE "unlink"

\* new NodeFileSystemWatcherImpl(watcher, options), and the watcher.on calls
\* createWatcher makes in the ready handler
NodeFileSystemWatcherImpl(options) ==
    [state |-> "active", backend |-> "local", options |-> options,
     closed |-> FALSE, isDisposed |-> FALSE,
     wired |-> (IF options.ignoreChangeEvents # "true" THEN {"add"} ELSE {})
               \cup (IF options.ignoreChangeEvents # "true" THEN {"change"} ELSE {})
               \cup (IF options.ignoreDeleteEvents # "true" THEN {"unlink"} ELSE {}),
     listeners |-> NoListeners, handles |-> {}, released |-> {}, regs |-> 0,
     disposeCalled |-> FALSE]

\* vscode.workspace.createFileSystemWatcher(pattern, ignoreCreateEvents,
\* ignoreChangeEvents, ignoreDeleteEvents) as createWatcher calls it, then
\* watcher.isDisposed = false; wired holds the raw events the native
\* watcher does not ignore
VSCodeWatcher(options) ==
    [state |-> "active", backend |-> "host", options |-> options,
     closed |-> FALSE, isDisposed |-> FALSE,
     wired |-> (IF options.ignoreChangeEvents # "true" THEN {"add"} ELSE {})
               \cup (IF options.ignoreChangeEvents # "true" THEN {"change"} ELSE {})
               \cup (IF options.ignoreDeleteEvents # "true" THEN {"unlink"} ELSE {}),
     listeners |-> NoListeners, handles |-> {}, released |-> {}, regs |-> 0,
     disposeCalled |-> FALSE]

\* get isDisposed(): this.watcher.closed on Local, the field on Host
isDisposed(w) == IF w.backend = "local" THEN w.closed ELSE w.isDisposed

\* get ignoreCreateEvents() etc.: this.options?.x ?? false
ignoreEvents(w, option) == w.options[option] = "true"

\* a faulty dispose that leaves the isDisposed field of the Host watcher
\* alone; C10 must tell it from dispose
DisposeForgetsFlag(w) ==
    IF w.backend = "local" THEN [w EXCEPT !.closed = TRUE, !.wired = {}]
    ELSE [w EXCEPT !.closed = TRUE]

\* a faulty dispose that leaves the chokidar watcher of the Local backend
\* open; C11 must tell it from dispose
DisposeLeavesOpen(w) ==
    IF w.backend = "local" THEN w
    ELSE [w EXCEPT !.closed = TRUE, !.isDisposed = TRUE]

\* dispose(): Local closes the chokidar watcher (closed = true, its event
\* handlers removed; a second close returns at once); Host calls the native
\* dispose, then sets isDisposed
dispose(w) ==
    IF w.backend = "local" THEN [w EXCEPT !.closed = TRUE, !.wired = {}]
    ELSE [w EXCEPT !.closed = TRUE, !.isDisposed = TRUE]

\* Set.prototype.add: an element already in the Set stays where it is
SetAdd(seq, x) ==
    IF \E i \in 1..Len(seq) : seq[i].cb = x.cb THEN seq ELSE Append(seq, x)

\* Set.prototype.delete
SetDelete(seq, cb) == SelectSeq(seq, LAMBDA r : r.cb # cb)

\* onDidCreate / onDidChange / onDidDelete(listener): the registration r is
\* what the handle returned closes over
Register(w, r) ==
    IF w.backend = "local"
    THEN [w EXCEPT !.listeners[r.kind] = SetAdd(@, r),
                   !.handles = @ \cup {r}, !.regs = @ + 1]
    ELSE [w EXCEPT !.listeners[r.kind] = Append(@, r),
                   !.handles = @ \cup {r}, !.regs = @ + 1]

\* the dispose of the handle of registration r: Local deletes the callback
\* from the Set, the native watcher removes the registration; released keeps
\* the handles whose dispose has been called
Unregister(w, r) ==
    IF w.backend = "local"
    THEN [w EXCEPT !.listeners[r.kind] = SetDelete(@, r.cb),
                   !.released = @ \cup {r}]
    ELSE [w EXCEPT !.listeners[r.kind] = SelectSeq(@, LAMBDA x : x.id # r.id),
                   !.released = @ \cup {r}]

\* the callbacks that may throw when called, and the sets of them that do
\* at one event
ThrowSets == SUBSET {"f"}

\* Set.prototype.forEach(listener => listener(uri)): the callbacks called, in
\* order; a callback that throws ends the loop
ForEach(cbs, throws) ==
    IF \E i \in 1..Len(cbs) : cbs[i] \in throws
    THEN SubSeq(cbs, 1, CHOOSE i \in 1..Len(cbs) :
                           /\ cbs[i] \in throws
                           /\ \A j \in 1..(i - 1) : cbs[j] \notin throws)
    ELSE cbs

\* the callbacks a raw event reaches, in the order they are called: Local
\* runs forEach over the Set of the kind, the native emitter of Host calls
\* every listener and keeps what one throws to itself
Delivered(w, kind, throws) ==
    LET cbs == [i \in 1..Len(w.listeners[kind]) |-> w.listeners[kind][i].cb]
    IN  IF w.closed \/ RawEvent(kind) \notin w.wired THEN <<>>
        ELSE IF w.backend = "local" THEN ForEach(cbs, throws)
        ELSE cbs

WatcherCall(op, opt, value) ==
    [NoCall EXCEPT !.op = op, !.backend = watcher'.backend, !.opt = opt,
                   !.res = Resolved(value)]

InitWatcher ==
    /\ fs = EmptyTree
    /\ last = NoCall
    /\ watcher = NoWatcher
    /\ hosts = <<>>

\* Local createWatcher: watch(), then the ready event resolves the promise
CreateWatcher == \E options \in WatcherOptions :
    /\ watcher.state = "none"
    /\ watcher' = [NoWatcher EXCEPT !.state = "starting", !.backend = "local",
                                    !.options = options]
    /\ last' = [NoCall EXCEPT !.op = "createWatcher", !.backend = "local"]
    /\ UNCHANGED <<fs, hosts>>

Ready ==
    /\ watcher.state = "starting"
    /\ watcher' = NodeFileSystemWatcherImpl(watcher.options)
    /\ last' = WatcherCall("ready", "", [tag |-> "watcher"])
    /\ UNCHANGED <<fs, hosts>>

\* Host createWatcher
VSCodeCreateWatcher == \E options \in WatcherOptions :
    /\ watcher.state = "none"
    /\ watcher' = VSCodeWatcher(options)
    /\ last' = WatcherCall("createWatcher", "", [tag |-> "watcher"])
    /\ UNCHANGED <<fs, hosts>>

OnDid == \E kind \in Kinds, cb \in Callbacks :
    /\ watcher.state = "active"
    /\ watcher.regs < MaxRegistrations
    /\ watcher' = Register(watcher, [kind |-> kind, cb |-> cb, id |-> watcher.regs + 1])
    /\ last' = WatcherCall("onDid", "", [tag |-> "handle"])
    /\ UNCHANGED <<fs, hosts>>

HandleDispose == \E r \in watcher.handles :
    /\ watcher.state = "active"
    /\ watcher' = Unregister(watcher, r)
    /\ last' = WatcherCall("handle.dispose", "", Void)
    /\ UNCHANGED <<fs, hosts>>

\* the engine reports a raw add, change or unlink
Event == \E kind \in Kinds, throws \in ThrowSets :
    /\ watcher.state = "active"
    /\ watcher' = watcher
    /\ last' = WatcherCall("event", kind,
                           LET list == Delivered(watcher, kind, throws)
                           IN  [tag |-> "delivered", list |-> list,
                                threw |-> {list[i] : i \in 1..Len(list)}
                                              \cap throws])
    /\ UNCHANGED <<fs, hosts>>

Dispose ==
    /\ watcher.state = "active"
    /\ watcher' = [dispose(watcher) EXCEPT !.disposeCalled = TRUE]
    /\ last' = WatcherCall("dispose",
                           IF watcher.disposeCalled THEN "again" ELSE "first", Void)
    /\ UNCHANGED <<fs, hosts>>

NextWatcher ==
    \/ CreateWatcher \/ Ready \/ VSCodeCreateWatcher
    \/ OnDid \/ HandleDispose \/ Event \/ Dispose

SpecWatcher == InitWatcher /\ [][NextWatcher]_vars

\* C10: on either backend isDisposed of a watcher is false from its creation
\* until dispose is first called and true in every state after a call of
\* dispose, never false again; dispose on a disposed watcher raises nothing
\* and leaves it disposed.
C10_DisposedMonotonic ==
    watcher.state = "active" =>
        /\ isDisposed(watcher) = watcher.disposeCalled
        /\ last.op = "dispose" => (last.res.ok /\ isDisposed(watcher))

C10_Witness ==
    /\ watcher.state = "active"
    /\ last.op = "dispose" /\ last.opt = "again"
    /\ last.res.ok
    /\ isDisposed(watcher)

\* C11: once dispose has been called on a Local watcher no raw event reaches
\* a create, change or delete listener, whatever was registered, fired or
\* disposed before, for the listeners registered at the time of dispose and
\* for those registered after it.
C11_NoDeliveryAfterDispose ==
    (watcher.state = "active" /\ watcher.backend = "local"
     /\ watcher.disposeCalled /\ last.op = "event") =>
        last.res.value.list = <<>>

\* a raw event the options do not ignore fires on a disposed Local watcher
\* that holds a listener of its kind
C11_Witness ==
    /\ watcher.state = "active" /\ watcher.backend = "local"
    /\ watcher.disposeCalled /\ last.op = "event"
    /\ watcher.listeners[last.opt] # <<>>
    /\ watcher.options.ignoreChangeEvents # "true"
    /\ watcher.options.ignoreDeleteEvents # "true"
    /\ last.res.value.list = <<>>

\* the registrations of a kind whose handle has not been disposed
Live(w, kind) == {r \in w.handles \ w.released : r.kind = kind}

Range(seq) == {seq[i] : i \in 1..Len(seq)}

\* C12: disposing the handle of one registration of a Local watcher removes
\* that registration and no other: an event the watcher is wired for reaches
\* the callback of every registration of its kind whose handle was not
\* disposed (same callback function as a disposed one or not, and whatever
\* was disposed in the other two sets or disposed twice), and reaches no
\* callback all of whose registrations were disposed (no listener throwing).
C12_HandleDisposeRemovesOne ==
    (watcher.state = "active" /\ watcher.backend = "local"
     /\ ~watcher.disposeCalled /\ last.op = "event"
     /\ RawEvent(last.opt) \in watcher.wired
     /\ last.res.value.threw = {}) =>
        /\ \A r \in Live(watcher, last.opt) :
               r.cb \in Range(last.res.value.list)
        /\ \A cb \in Range(last.res.value.list) :
               \E r \in Live(watcher, last.opt) : r.cb = cb

\* the option of the interface that names a kind of event
IgnoreOption(kind) ==
    IF kind = "create" THEN "ignoreCreateEvents"
    ELSE IF kind = "change" THEN "ignoreChangeEvents" ELSE "ignoreDeleteEvents"

\* C13: on both backends an event of a kind reaches the listeners of that
\* kind exactly when the option of that kind is not true: create events are
\* gated by ignoreCreateEvents alone (never delivered when it is true,
\* delivered when it is unset or false whatever ignoreChangeEvents is),
\* change events by ignoreChangeEvents alone, delete events by
\* ignoreDeleteEvents alone.
C13_GatedByOwnOption ==
    (watcher.state = "active" /\ ~watcher.disposeCalled /\ last.op = "event"
     /\ watcher.listeners[last.opt] # <<>>) =>
        (last.res.value.list # <<>>
            <=> ~ignoreEvents(watcher, IgnoreOption(last.opt)))

\* C14: isSymbolicLink(uri) resolves to a FileStat whenever the entry at uri
\* is a symbolic link, its target a regular file, a directory or missing,
\* and to false otherwise (on Host: with the provider available).
C14_IsSymbolicLinkTruthy ==
    LET l == FsLstat(last.pre, last.path)
    IN  (last.op = "isSymbolicLink"
         /\ (last.backend = "local" \/ last.opt = HostAvail(TRUE))) =>
            /\ last.res.ok
            /\ (l.ok /\ l.value.kind = "link") => last.res.value.tag = "stat"
            /\ ~(l.ok /\ l.value.kind = "link") => last.res.value = False

\* C15: a raw event a Local watcher is wired for, firing while the watcher
\* is not disposed, calls every listener that is in the Set of its kind at
\* that moment, once each, in the order they were added, and no listener of
\* the other two Sets, whether or not a listener called earlier throws; a
\* registration delivers nothing by itself.
C15_FanOutInOrder ==
    /\ (watcher.state = "active" /\ watcher.backend = "local"
        /\ ~watcher.disposeCalled /\ last.op = "event"
        /\ RawEvent(last.opt) \in watcher.wired) =>
           last.res.value.list =
               [i \in 1..Len(watcher.listeners[last.opt]) |->
                    watcher.listeners[last.opt][i].cb]
    /\ last.op = "onDid" => last.res.value.tag = "handle"

----------------------------------------------------------------------------
\* The Host adapter and the Local adapter it forwards the stream methods to.
\* hosts[h] is the object createVSCodeFileSystem returned to its h-th caller:
\* built counts the calls of createNodeFileSystem made for it, local is the
\* state of its nodeFileSystem promise, streams counts the stream methods
\* called on it, awaiting holds the stream calls at (await nodeFileSystem),
\* forwarded the calls made on a Local adapter, each with the adapter's owner.

\* createVSCodeFileSystem is called at most MaxHosts times, and the stream
\* methods at most MaxStreamCalls times in all
MaxHosts == 2
MaxStreamCalls == 3

InitHost ==
    /\ fs = EmptyTree
    /\ last = NoCall
    /\ watcher = NoWatcher
    /\ hosts = <<>>

StreamCalls == LET Sum[i \in 0..Len(hosts)] ==
                       IF i = 0 THEN 0 ELSE Sum[i - 1] + hosts[i].streams
               IN  Sum[Len(hosts)]

\* createVSCodeFileSystem(): const nodeFileSystem = createNodeFileSystem()
\* runs before the object is returned, and starts the imports of the Local
\* adapter
CreateVSCodeFileSystem ==
    /\ Len(hosts) < MaxHosts
    /\ hosts' = Append(hosts, [built |-> 1, local |-> "pending", streams |-> 0,
                               awaiting |-> <<>>, forwarded |-> <<>>])
    /\ last' = [NoCall EXCEPT !.op = "createVSCodeFileSystem", !.backend = "host"]
    /\ UNCHANGED <<fs, watcher>>

\* the Promise.all of createNodeFileSystem settles: the Local adapter of
\* host h exists
NodeFileSystemReady == \E h \in 1..Len(hosts) :
    /\ hosts[h].local = "pending"
    /\ hosts' = [hosts EXCEPT ![h].local = "ready"]
    /\ last' = [NoCall EXCEPT !.op = "createNodeFileSystem", !.backend = "local"]
    /\ UNCHANGED <<fs, watcher>>

\* a method of host h that the native provider serves (stat, readFile, ...)
HostNativeCall == \E h \in 1..Len(hosts), op \in {"stat", "readFile"} :
    /\ last.op # op
    /\ last' = [NoCall EXCEPT !.op = op, !.backend = "host"]
    /\ UNCHANGED <<fs, watcher, hosts>>

\* createWritableStream / createReadableStream of host h, up to the await
HostStreamCall == \E h \in 1..Len(hosts), method \in {"createWritableStream", "createReadableStream"} :
    /\ StreamCalls < MaxStreamCalls
    /\ hosts' = [hosts EXCEPT ![h].streams = @ + 1,
                              ![h].awaiting = Append(@, method)]
    /\ last' = [NoCall EXCEPT !.op = method, !.backend = "host"]
    /\ UNCHANGED <<fs, watcher>>

\* (await nodeFileSystem).createXStream(uri): the call goes to the adapter
\* the promise of host h resolved to
HostStreamForward == \E h \in 1..Len(hosts) :
    /\ hosts[h].local = "ready"
    /\ hosts[h].awaiting # <<>>
    /\ hosts' = [hosts EXCEPT
                    ![h].awaiting = Tail(@),
                    ![h].forwarded = Append(@, [method |-> Head(hosts[h].awaiting),
                                                 owner |-> h])]
    /\ last' = [NoCall EXCEPT !.op = Head(hosts[h].awaiting), !.backend = "local"]
    /\ UNCHANGED <<fs, watcher>>

NextHost ==
    \/ CreateVSCodeFileSystem \/ NodeFileSystemReady \/ HostNativeCall
    \/ HostStreamCall \/ HostStreamForward

SpecHost == InitHost /\ [][NextHost]_vars

\* C16: a Host adapter builds its Local adapter lazily and at most once: no
\* createNodeFileSystem call is made for it before a stream method is
\* called on it (so none ever for a Host adapter whose stream methods are
\* never called), at most one is made, and every stream call is forwarded
\* to the Local adapter of that one call.
C16_LazyLocalAdapter ==
    \A h \in 1..Len(hosts) :
        /\ hosts[h].built <= 1
        /\ hosts[h].streams = 0 => hosts[h].built = 0
        /\ \A i \in 1..Len(hosts[h].forwarded) : hosts[h].forwarded[i].owner = h

----------------------------------------------------------------------------
Count(calls, x) == Cardinality({i \in 1..Len(calls) : calls[i] = x})

\* the subtree at p holds regular files, directories and symbolic links to p
\* or to a directory above p only
OwnTree(f, p) ==
    /\ NodeAt(f, p).kind = "dir"
    /\ \A r \in Below(f, p) :
          \/ f[p \o r].kind \in {"file", "dir"}
          \/ f[p \o r].kind = "link" /\ IsPrefix(f[p \o r].target, p)

\* C17: Local copy(source, target) of a directory visits (stats) each entry
\* the source tree had when it was called at most once, so it makes no more
\* copyRecursive calls than that tree has entries, also when target lies
\* inside source and when source holds a symbolic link to itself or to a
\* directory above it.
C17_CopyVisitsOnce ==
    (last.backend = "local" /\ last.op = "copy" /\ OwnTree(last.pre, last.path)) =>
        Count(last.calls, "stat") <= 1 + Cardinality(Below(last.pre, last.path))

----------------------------------------------------------------------------
\* rename(source, target, {overwrite: false}) step by step, with the calls
\* of other callers on the same paths in between: the method awaits
\* ensureTargetNotExists and then awaits fs.promises.rename, and other
\* promises run at each await. While the rename is between its two awaits
\* last.op is "rename.checked" and last.calls lists the primitives run since
\* it started, those of the other callers included.

\* the calls other callers make while one rename is in flight
MaxInterleaved == 2

InitRace ==
    /\ fs \in InitTrees
    /\ last = NoCall
    /\ watcher = NoWatcher
    /\ hosts = <<>>

\* rename up to the end of await ensureTargetNotExists(target.fsPath)
RenameCheck == \E st \in PathPairs :
    LET e == ensureTargetNotExists(fs, st[2])
    IN  /\ last.op = "none"
        /\ last' = [op |-> IF e.ok THEN "rename.checked" ELSE "rename",
                    backend |-> "local", path |-> st[1], target |-> st[2],
                    opt |-> "false",
                    res |-> IF e.ok THEN NoCall.res ELSE wrap(Rejected(e.error)),
                    calls |-> <<"access">>, pre |-> fs]
        /\ UNCHANGED <<fs, watcher, hosts>>

\* writeFile of another caller on the source or the target of the rename
OtherWriteFile == \E p \in {last.path, last.target}, d \in 1..MaxData :
    /\ last.op = "rename.checked"
    /\ Len(last.calls) <= MaxInterleaved
    /\ fs' = LocalWriteFile(fs, p, d).fs
    /\ last' = [last EXCEPT !.calls = Append(@, "writeFile")]
    /\ UNCHANGED <<watcher, hosts>>

\* createDirectory of another caller on the source or the target
OtherCreateDirectory == \E p \in {last.path, last.target} :
    /\ last.op = "rename.checked"
    /\ Len(last.calls) <= MaxInterleaved
    /\ fs' = LocalCreateDirectory(fs, p).fs
    /\ last' = [last EXCEPT !.calls = Append(@, "mkdir")]
    /\ UNCHANGED <<watcher, hosts>>

\* await fs.promises.rename(source.fsPath, target.fsPath); pre is the tree
\* the primitive finds
RenameAct ==
    LET r == FsRename(fs, last.path, last.target)
    IN  /\ last.op = "rename.checked"
        /\ fs' = r.fs
        /\ last' = [last EXCEPT !.op = "rename",
                                !.res = wrap(Settle(r, "rename", last.path)),
                                !.calls = Append(@, "rename"),
                                !.pre = fs]
        /\ UNCHANGED <<watcher, hosts>>

NextRace == RenameCheck \/ OtherWriteFile \/ OtherCreateDirectory \/ RenameAct

SpecRace == InitRace /\ [][NextRace]_vars

\* C18: whatever other callers do on the same paths meanwhile, a Local
\* rename(source, target, {overwrite: false}) that resolves has replaced no
\* entry: when its rename primitive ran, the absence check (access) would
\* still have found nothing at target.
C18_RenameCheckAtomic ==
    (last.op = "rename" /\ last.opt = "false" /\ last.res.ok
     /\ Has(last.calls, "rename")) =>
        ~FsAccess(last.pre, last.target).ok

----------------------------------------------------------------------------
\* C19: Host delete passes the recursive and useTrash values of its caller
\* to the native delete, so that delete(dir, {recursive: true}) of a
\* directory that is not empty and delete(f, {useTrash: true}) of a regular
\* file end as they do on Local from the same tree: both resolve or both
\* reject, and the trees after are the same.
C19_HostDeleteHonoursOptions ==
    LET recursive == last.opt = "recursive"
        useTrash == last.opt = "useTrash"
        local == LocalDelete(last.pre, last.path, recursive, useTrash)
        n == FsLstat(last.pre, last.path)
    IN  (last.backend = "host" /\ last.op = "delete") =>
            /\ (recursive /\ n.ok /\ n.value.kind = "dir"
                /\ ~IsEmptyDir(last.pre, last.path)) =>
                   /\ Has(last.calls, "recursive")
                   /\ last.res.ok = local.res.ok
                   /\ fs = local.fs
            /\ (useTrash /\ n.ok /\ n.value.kind = "file") =>
                   /\ Has(last.calls, "useTrash")
                   /\ last.res.ok = local.res.ok
                   /\ fs = local.fs

====
